---- MODULE Spec2Model ----
(***************************************************************************)
(* Atrium AI (BKW.Hackathon): the estimation pipeline (catalog load, room  *)
(* type classification, power estimation, cost estimation) and the         *)
(* dashboard that drives it.                                               *)
(*                                                                         *)
(* The Python backend (api.py, started by src/Dockerfile) is not part of   *)
(* the sources at hand: only its callers and the declarations of its       *)
(* responses are (services/api.ts).  The pipeline part below is therefore  *)
(* written from the design document (spec.md, sections 3 to 8); the        *)
(* dashboard part is written from the TypeScript sources.                  *)
(***************************************************************************)
EXTENDS Integers, Sequences, FiniteSets, TLC

(***************************************************************************)
(* Bounds of the model.                                                    *)
(***************************************************************************)
MaxRooms == 2

(***************************************************************************)
(* PART 1 -- text normalisation (spec.md 4.2 step 1).                      *)
(* A raw string is a sequence of one-character strings.                    *)
(***************************************************************************)
Punctuation == {".", "-", ","}

Whitespace == {" "}

\* Case folding and diacritic stripping, character by character, over the
\* alphabet of the sample data.
FoldChar(c) ==
  CASE c = "B" -> "b"
    [] c = "W" -> "w"
    [] c = "C" -> "c"
    [] c = "R" -> "r"
    [] c = "O" -> "o"
    [] c = "ü" -> "u"
    [] c = "Ü" -> "u"
    [] c = "ö" -> "o"
    [] OTHER -> c

RECURSIVE StripAndFold(_)
\* case-fold, strip diacritics, strip punctuation; whitespace is kept
StripAndFold(s) ==
  IF s = <<>> THEN <<>>
  ELSE IF Head(s) \in Punctuation THEN StripAndFold(Tail(s))
       ELSE <<FoldChar(Head(s))>> \o StripAndFold(Tail(s))

RECURSIVE SplitTokens(_, _)
\* split on whitespace; cur is the token being read; empty tokens are dropped
SplitTokens(s, cur) ==
  IF s = <<>> THEN (IF cur = <<>> THEN <<>> ELSE <<cur>>)
  ELSE IF Head(s) \in Whitespace
       THEN (IF cur = <<>> THEN <<>> ELSE <<cur>>) \o SplitTokens(Tail(s), <<>>)
       ELSE SplitTokens(Tail(s), Append(cur, Head(s)))

Tokenize(s) == SplitTokens(s, <<>>)

\* the strings of the sample data
S_Buero == <<"B", "ü", "r", "o">>

S_BueroWC == <<"B", "ü", "r", "o", " ", "W", "C">>

S_WC == <<"W", "C">>

S_Buero101 == <<"B", "ü", "r", "o", " ", "1", ".", "0", "1">>

S_Bor == <<"B", "o", "r">>

SampleStrings == {S_Buero, S_BueroWC, S_WC, S_Buero101, S_Bor}

\* the normalised form of every sample string, computed once
NormalTable == [raw \in SampleStrings |-> Tokenize(StripAndFold(raw))]

\* the normalised name: a sequence of tokens
Normalize(raw) == NormalTable[raw]

(***************************************************************************)
(* PART 2 -- the synonym catalog (spec.md 3 and 4.1).                      *)
(* A catalog entry is a CanonicalRoomType: a numeric type code             *)
(* (PowerEstimates.room_type is a number), its synonym strings, its        *)
(* benchmark rates and the median room area of the type.                   *)
(***************************************************************************)
Unclassified == 0

Missing == -1

T_Office == [code |-> 1, synonyms |-> {S_Buero}, heating |-> 45, cooling |-> 30,
             ventilation |-> 4, ventUnit |-> "m2", medianArea |-> 20]

T_StaffWC == [code |-> 2, synonyms |-> {S_BueroWC}, heating |-> 20, cooling |-> 0,
              ventilation |-> 8, ventUnit |-> "m3", medianArea |-> 4]

T_StaffWCDupSyn == [T_StaffWC EXCEPT !.synonyms = {S_BueroWC, S_Buero}]

T_StaffWCDupCode == [T_StaffWC EXCEPT !.code = 1]

\* the catalog inputs of the model: two valid ones, one with a synonym owned
\* by two types, one with a type code used twice
SampleEntries ==
  { <<T_Office, T_StaffWC>>,
    <<T_StaffWC, T_Office>>,
    <<T_Office, T_StaffWCDupSyn>>,
    <<T_Office, T_StaffWCDupCode>> }

TypeCodesUnique(entries) ==
  \A i, j \in DOMAIN entries : i # j => entries[i].code # entries[j].code

SynonymsDisjoint(entries) ==
  \A i, j \in DOMAIN entries :
    i # j => entries[i].synonyms \cap entries[j].synonyms = {}

OnlySynonymsDisjoint(entries) == SynonymsDisjoint(entries)

CatalogValid(entries) == TypeCodesUnique(entries) /\ SynonymsDisjoint(entries)

\* load(entries) -> Catalog | CatalogConflict
LoadCatalog(entries) ==
  IF CatalogValid(entries)
  THEN [status |-> "ok", types |-> entries]
  ELSE [status |-> "CatalogConflict", types |-> <<>>]

\* lookup(typeCode) -> CanonicalRoomType (the set is empty or a singleton)
Lookup(catalog, code) ==
  {catalog.types[i] : i \in {j \in DOMAIN catalog.types : catalog.types[j].code = code}}

(***************************************************************************)
(* PART 3 -- lexical scoring and ranking (spec.md 4.2 steps 2 and 4).      *)
(* Scores and confidences are integers in 0..100 (percent of 1.0).         *)
(***************************************************************************)
LexicalThreshold == 80

TopN == 2

DegradePenalty == 10

TokenSet(t) == {t[i] : i \in DOMAIN t}

\* syn occurs in name as a contiguous run of tokens
IsSubseq(syn, name) ==
  /\ Len(syn) >= 1
  /\ \E k \in 0..(Len(name) - Len(syn)) : SubSeq(name, k + 1, k + Len(syn)) = syn

\* normalised token overlap
Similarity(a, b) ==
  LET u == TokenSet(a) \cup TokenSet(b)
  IN IF u = {} THEN 0
     ELSE (100 * Cardinality(TokenSet(a) \cap TokenSet(b))) \div Cardinality(u)

SynonymMatches(name, syn) == name = syn \/ IsSubseq(syn, name)

SynonymScore(name, syn) ==
  IF SynonymMatches(name, syn) THEN 100 ELSE Similarity(name, syn)

SetMax(S) == CHOOSE x \in S : \A y \in S : y <= x

TypeScore(name, type) ==
  SetMax({0} \cup {SynonymScore(name, Normalize(s)) : s \in type.synonyms})

HasSynonymMatch(name, catalog) ==
  \E i \in DOMAIN catalog.types :
    \E s \in catalog.types[i].synonyms : SynonymMatches(name, Normalize(s))

Abs(x) == IF x < 0 THEN -x ELSE x

AreaMalformed(room) == room.area = Missing \/ room.volume = Missing

AreaDistance(room, type) ==
  IF room.area = Missing THEN 0 ELSE Abs(room.area - type.medianArea)

\* candidate a is ranked before candidate b for this room: higher score,
\* then the closer area bucket, then the smaller type code
Precedes(room, a, b) ==
  LET n == Normalize(room.name)
      sa == TypeScore(n, a)
      sb == TypeScore(n, b)
      da == AreaDistance(room, a)
      db == AreaDistance(room, b)
  IN \/ sa > sb
     \/ sa = sb /\ da < db
     \/ sa = sb /\ da = db /\ a.code < b.code

\* the candidates in rank order
RECURSIVE RankOf(_, _, _)
RankOf(room, types, left) ==
  IF left = {} THEN <<>>
  ELSE LET best == CHOOSE i \in left :
                     \A j \in left \ {i} : Precedes(room, types[i], types[j])
       IN <<[type |-> types[best].code,
             score |-> TypeScore(Normalize(room.name), types[best])]>>
          \o RankOf(room, types, left \ {best})

Ranking(room, catalog) == RankOf(room, catalog.types, DOMAIN catalog.types)

TopCandidates(room, catalog) ==
  LET r == Ranking(room, catalog)
  IN SubSeq(r, 1, IF Len(r) < TopN THEN Len(r) ELSE TopN)

\* the lexical match: the best candidate, UNCLASSIFIED when nothing scores
LexicalMatch(room, catalog) ==
  LET r == Ranking(room, catalog)
  IN IF r = <<>> \/ r[1].score = 0
     THEN [type |-> Unclassified, score |-> 0]
     ELSE r[1]

(***************************************************************************)
(* PART 4 -- classification of one room (spec.md 4.2 steps 3 and 5, 7).    *)
(***************************************************************************)
\* the room records of the sample data: name, area (m2), volume (m3)
SampleRoomKinds ==
  { [name |-> S_Buero101, area |-> 20, volume |-> 50],
    [name |-> S_Buero101, area |-> Missing, volume |-> 50],
    [name |-> S_BueroWC, area |-> 20, volume |-> 50],
    [name |-> S_WC, area |-> 4, volume |-> 10],
    [name |-> S_Bor, area |-> Missing, volume |-> Missing],
    [name |-> S_Bor, area |-> 12, volume |-> 30] }

\* every ordered room book of at most MaxRooms rooms of the given kinds; a
\* room's identifier is its row number
RoomBooksOf(kinds) ==
  UNION { { [i \in 1..n |-> [id |-> i, name |-> k[i].name, area |-> k[i].area,
                             volume |-> k[i].volume]] :
            k \in [1..n -> kinds] } : n \in 0..MaxRooms }

RoomBooks == RoomBooksOf(SampleRoomKinds)

\* the injected semantic disambiguation capability rank(name, candidates),
\* as deterministic stubs
Stubs == {"timeout", "error", "confident", "unsure", "flaky"}

StubRank(stub, name, cands) ==
  CASE stub = "timeout" -> [status |-> "timeout", type |-> Unclassified, confidence |-> 0]
    [] stub = "error" -> [status |-> "error", type |-> Unclassified, confidence |-> 0]
    [] stub = "confident" ->
         [status |-> "ok",
          type |-> IF cands = <<>> THEN Unclassified ELSE cands[Len(cands)].type,
          confidence |-> 90]
    [] stub = "unsure" ->
         [status |-> "ok",
          type |-> IF cands = <<>> THEN Unclassified ELSE cands[1].type,
          confidence |-> 20]
    [] OTHER ->
         IF name # <<>> /\ Head(name) = <<"w", "c">>
         THEN [status |-> "timeout", type |-> Unclassified, confidence |-> 0]
         ELSE [status |-> "ok",
               type |-> IF cands = <<>> THEN Unclassified ELSE cands[1].type,
               confidence |-> 70]

NoResult ==
  [room |-> 0, type |-> Unclassified, confidence |-> 0, alternates |-> <<>>,
   provenance |-> "none"]

\* mutant of Unmatched: step 5 is never applied
UnmatchedNever(room, catalog) == FALSE

\* step 5: malformed area/volume and no synonym match
Unmatched(room, catalog) ==
  AreaMalformed(room) /\ ~HasSynonymMatch(Normalize(room.name), catalog)

Degrade(score) == IF score > DegradePenalty THEN score - DegradePenalty ELSE 0

\* the lexical-only result of a room
LexicalResult(room, catalog) ==
  IF Unmatched(room, catalog)
  THEN [room |-> room.id, type |-> Unclassified, confidence |-> 0,
        alternates |-> <<>>, provenance |-> "lexical"]
  ELSE LET m == LexicalMatch(room, catalog)
       IN [room |-> room.id, type |-> m.type, confidence |-> m.score,
           alternates |-> TopCandidates(room, catalog), provenance |-> "lexical"]

\* step 3: the semantic capability is asked when the lexical score is below
\* the threshold
NeedsFallback(room, catalog) ==
  /\ ~Unmatched(room, catalog)
  /\ LexicalMatch(room, catalog).score < LexicalThreshold

\* mutant of FallbackResult: a timeout or error leaves the lexical result as
\* it is, with no degradation
FallbackResultUndegraded(room, catalog, outcome) ==
  LET lex == LexicalResult(room, catalog)
  IN IF outcome.status = "ok" /\ outcome.confidence > lex.confidence
     THEN [lex EXCEPT !.type = outcome.type,
                      !.confidence = outcome.confidence,
                      !.provenance = "semantic"]
     ELSE lex

\* the result of a room once the capability has answered, timed out or failed
FallbackResult(room, catalog, outcome) ==
  LET lex == LexicalResult(room, catalog)
  IN IF outcome.status = "ok"
     THEN IF outcome.confidence > lex.confidence
          THEN [lex EXCEPT !.type = outcome.type,
                           !.confidence = outcome.confidence,
                           !.provenance = "semantic"]
          ELSE lex
     ELSE [lex EXCEPT !.confidence = Degrade(lex.confidence),
                      !.provenance = "lexical_degraded"]

\* the whole classification of one room, as a function of its inputs
ClassifyRoom(room, catalog, stub) ==
  IF NeedsFallback(room, catalog)
  THEN FallbackResult(room, catalog,
                      StubRank(stub, Normalize(room.name), TopCandidates(room, catalog)))
  ELSE LexicalResult(room, catalog)

(***************************************************************************)
(* PART 5 -- power estimation (spec.md 4.3) and the response the dashboard *)
(* declares for it (services/api.ts, PowerEstimates).                      *)
(***************************************************************************)
\* the generic benchmark of UNCLASSIFIED rooms (configurable)
DefaultBenchmark ==
  [code |-> Unclassified, synonyms |-> {}, heating |-> 50, cooling |-> 25,
   ventilation |-> 5, ventUnit |-> "m2", medianArea |-> 0]

BenchmarkOf(catalog, code) ==
  IF Lookup(catalog, code) = {} THEN DefaultBenchmark
  ELSE CHOOSE t \in Lookup(catalog, code) : TRUE

Quantity(x) == IF x = Missing THEN 0 ELSE x

\* one PowerEstimate: benchmark rates, absolute loads, confidence carried on
EstimateRoom(room, result, catalog) ==
  LET b == BenchmarkOf(catalog, result.type)
  IN [room |-> room.id,
      type |-> result.type,
      heating_rate |-> b.heating,
      cooling_rate |-> b.cooling,
      ventilation_rate |-> b.ventilation,
      heating_load |-> b.heating * Quantity(room.area),
      cooling_load |-> b.cooling * Quantity(room.area),
      ventilation_load |-> b.ventilation *
          (IF b.ventUnit = "m3" THEN Quantity(room.volume) ELSE Quantity(room.area)),
      area |-> room.area,
      volume |-> room.volume,
      confidence |-> result.confidence]

EstimatedRooms(output) == DOMAIN output

\* the per-room map of PowerEstimate, keyed by room identifier
EstimatePower(rooms, output, catalog) ==
  [i \in EstimatedRooms(output) |-> EstimateRoom(rooms[i], output[i], catalog)]

RECURSIVE SumOver(_, _, _)
\* sum of f[i][field] for i in the set S
SumOver(f, S, field) ==
  IF S = {} THEN 0
  ELSE LET i == CHOOSE x \in S : TRUE
       IN f[i][field] + SumOver(f, S \ {i}, field)

\* the building-level roll-up: totals, and area-weighted average rates
Aggregate(rooms, power) ==
  LET ids == DOMAIN power
      area == SumOver([i \in ids |-> [q |-> Quantity(rooms[i].area)]], ids, "q")
      heat == SumOver(power, ids, "heating_load")
      cool == SumOver(power, ids, "cooling_load")
      vent == SumOver(power, ids, "ventilation_load")
  IN [total_area |-> area,
      total_heating |-> heat,
      total_cooling |-> cool,
      total_ventilation |-> vent,
      avg_heating_rate |-> IF area = 0 THEN 0 ELSE heat \div area,
      avg_cooling_rate |-> IF area = 0 THEN 0 ELSE cool \div area]

\* the PowerEstimates record as the dashboard declares it
ToPowerEstimates(e) ==
  [room_nr |-> e.room,
   room_type |-> e.type,
   heating_W_per_m2 |-> e.heating_rate,
   cooling_W_per_m2 |-> e.cooling_rate,
   ventilation_m3_per_h |-> e.ventilation_load,
   area_m2 |-> e.area,
   volume_m3 |-> e.volume]

\* the PowerRequirementsResponse as the dashboard declares it
ToPowerRequirementsResponse(power) ==
  [merged_rows |-> Cardinality(DOMAIN power),
   power_estimates |-> [i \in DOMAIN power |-> ToPowerEstimates(power[i])]]

(***************************************************************************)
(* PART 6 -- cost estimation (spec.md 4.4).  Prices are integers in units  *)
(* of 1/1000 of the currency unit once the three multipliers (each in      *)
(* tenths) are applied; nothing is rounded before output formatting.       *)
(***************************************************************************)
SubgroupOrder == <<"heat_generation", "heat_distribution", "ventilation_distribution">>

\* the cost-driving quantity of a subgroup
DrivingQuantity(sg, agg) ==
  CASE sg = "heat_generation" -> agg.total_heating
    [] sg = "heat_distribution" -> agg.total_area
    [] OTHER -> agg.total_area

\* the subgroups this project needs
RequiredSubgroups(agg) ==
  {SubgroupOrder[k] : k \in {j \in DOMAIN SubgroupOrder :
                               DrivingQuantity(SubgroupOrder[j], agg) > 0}}

\* cost-factor tables: unit price per subgroup, Missing for an absent entry
CostTables ==
  { [sg \in {"heat_generation", "heat_distribution", "ventilation_distribution"} |->
       CASE sg = "heat_generation" -> 3 [] sg = "heat_distribution" -> 7 [] OTHER -> 5],
    [sg \in {"heat_generation", "heat_distribution", "ventilation_distribution"} |->
       CASE sg = "heat_generation" -> 3 [] sg = "heat_distribution" -> 7 [] OTHER -> Missing],
    [sg \in {"heat_generation", "heat_distribution", "ventilation_distribution"} |->
       CASE sg = "heat_generation" -> Missing [] sg = "heat_distribution" -> 7 [] OTHER -> 5] }

\* project-level multipliers, in tenths: markup, regional index, contingency
FactorSets ==
  { [markup |-> 12, regional_index |-> 11, contingency |-> 11],
    [markup |-> 10, regional_index |-> 9, contingency |-> 10] }

\* one CostLineItem (CostBOQItem in services/api.ts)
LineItem(sg, agg, table, factors) ==
  LET q == DrivingQuantity(sg, agg)
      material == q * table[sg]
  IN [subgroup_kg |-> sg,
      quantity |-> q,
      material_unit_price |-> table[sg],
      total_material_price |-> material,
      total_final_price |->
        material * factors.markup * factors.regional_index * factors.contingency]

\* rounding to whole currency units, the display precision
RoundToCurrency(x) == (x \div 1000) * 1000

AddRounded(total, item) == total + RoundToCurrency(item.total_final_price)

AddToTotal(total, item) == total + item.total_final_price

RECURSIVE SumFinal(_)
SumFinal(items) ==
  IF items = <<>> THEN 0 ELSE Head(items).total_final_price + SumFinal(Tail(items))

(***************************************************************************)
(* PART 7 -- the dashboard (bkw-ui).  The analysis state is the React      *)
(* state of AnalysisProvider; page.tsx renders one view per currentStep;   *)
(* a view's effect runs when the view is mounted and its cleanup when it   *)
(* is unmounted.  A handler, or the continuation of an awaited call,       *)
(* together with the render it causes is one step.                         *)
(***************************************************************************)
VARIABLES entries, rooms, stub, run

VARIABLES state, calls, powerCalls, pendingCalls, timer, console

VARIABLES reportCalls, reportGenerateData

VARIABLES selectedFile, error, onFileSelect

pvars == <<entries, rooms, stub, run>>

uvars == <<state, calls, powerCalls, pendingCalls, timer, console,
          reportCalls, reportGenerateData>>

avars == <<selectedFile, error, onFileSelect>>

vars == <<pvars, uvars, avars>>

MaxUploads == 2

MaxPowerUploads == 2

\* the files offered to the two slots of the home upload area
Files == [file1 : {"Raumbuch.xlsx"}, file2 : {"Mapping.csv"}]

\* the files offered to the two slots of the intermediate upload area
PowerFiles == [file1 : {"Heizung.xlsx", "Heizung2.xlsx"}, file2 : {"Lueftung.xlsx"}]

NoFile == "null"

NoRoomTypeData ==
  [processed_file |-> "null", report_csv |-> "null", output_xlsx |-> "null",
   rows |-> -1, message |-> "null"]

NoStep1Data ==
  [optimizedRooms |-> -1, totalRooms |-> -1, improvementRate |-> -1, confidence |-> -1]

NoStep2Data ==
  [energyConsumption |-> -1, reductionPercentage |-> -1, annualSavings |-> -1]

NoPowerRequirementsData ==
  [heating_file |-> "null", ventilation_file |-> "null", merged_rows |-> -1,
   merged_columns |-> -1, power_estimates |-> <<>>, performance_table |-> "null",
   message |-> "null"]

NoCostEstimationData == [grand_total_cost |-> -1, detailed_boq |-> <<>>]

\* reportGenerateData before a report exists
NoReportGenerateData ==
  [project_name |-> "null", file_count |-> -1, formats_generated |-> "null",
   message |-> "null"]

initialState ==
  [currentStep |-> "home",
   uploadedFiles |-> [file1 |-> NoFile, file2 |-> NoFile],
   step1Completed |-> FALSE,
   step2Completed |-> FALSE,
   reportCompleted |-> FALSE,
   step1Visited |-> FALSE,
   step2Visited |-> FALSE,
   isProcessing |-> FALSE,
   step1Data |-> NoStep1Data,
   step2Data |-> NoStep2Data,
   roomTypeData |-> NoRoomTypeData,
   powerRequirementsData |-> NoPowerRequirementsData,
   costEstimationData |-> NoCostEstimationData]

\* the setters of AnalysisProvider: each replaces one field of the state
setCurrentStep(s, step) == [s EXCEPT !.currentStep = step]

setUploadedFiles(s, file1, file2) ==
  [s EXCEPT !.uploadedFiles = [file1 |-> file1, file2 |-> file2]]

markStep1Complete(s) == [s EXCEPT !.step1Completed = TRUE]

markStep2Complete(s) == [s EXCEPT !.step2Completed = TRUE]

markReportComplete(s) == [s EXCEPT !.reportCompleted = TRUE]

\* mutant of markStep1Visited: the visit is not recorded
markStep1VisitedForgotten(s) == s

markStep1Visited(s) == [s EXCEPT !.step1Visited = TRUE]

markStep2Visited(s) == [s EXCEPT !.step2Visited = TRUE]

setProcessing(s, isProcessing) == [s EXCEPT !.isProcessing = isProcessing]

setStep1Data(s, data) == [s EXCEPT !.step1Data = data]

setStep2Data(s, data) == [s EXCEPT !.step2Data = data]

setRoomTypeData(s, data) == [s EXCEPT !.roomTypeData = data]

\* mutant of setPowerRequirementsData: storing the power result drops the
\* classification result
setPowerRequirementsDataOnly(s, data) ==
  [s EXCEPT !.powerRequirementsData = data, !.roomTypeData = NoRoomTypeData]

setPowerRequirementsData(s, data) == [s EXCEPT !.powerRequirementsData = data]

\* what POST /roomtypes/classify can answer: the classification result, a
\* non-OK status whose body names the fatal reason, or no answer at all
RoomTypeResult(file1, file2) ==
  [processed_file |-> file1, report_csv |-> "report.csv",
   output_xlsx |-> "output.xlsx", rows |-> 52, message |-> "classified"]

HttpOk(body) ==
  [kind |-> "http", ok |-> TRUE, status |-> 200, detail |-> "none", body |-> body]

HttpFailure(status, detail) ==
  [kind |-> "http", ok |-> FALSE, status |-> status, detail |-> detail,
   body |-> NoRoomTypeData]

NetworkFailure ==
  [kind |-> "network", ok |-> FALSE, status |-> 0, detail |-> "Failed to fetch",
   body |-> NoRoomTypeData]

NoResponse ==
  [kind |-> "none", ok |-> FALSE, status |-> 0, detail |-> "none",
   body |-> NoRoomTypeData]

ClassifyResponses(file1, file2) ==
  {HttpOk(RoomTypeResult(file1, file2)),
   HttpFailure(500, "CatalogConflict"),
   NetworkFailure}

NoError == [message |-> "none", status |-> 0]

\* mutant of classifyRoomTypes: response.ok is not tested, the body of every
\* HTTP answer is returned
classifyRoomTypesUnchecked(response) ==
  IF response.kind = "network"
  THEN [threw |-> TRUE, error |-> [message |-> response.detail, status |-> 0],
        value |-> NoRoomTypeData]
  ELSE [threw |-> FALSE, error |-> NoError, value |-> response.body]

\* classifyRoomTypes after its fetch has settled: a rejected fetch rejects the
\* call, a non-OK response throws an Error made of the status alone (the body
\* is not read), an OK response yields the parsed body
classifyRoomTypes(response) ==
  IF response.kind = "network"
  THEN [threw |-> TRUE, error |-> [message |-> response.detail, status |-> 0],
        value |-> NoRoomTypeData]
  ELSE IF ~response.ok
  THEN [threw |-> TRUE,
        error |-> [message |-> "HTTP error! status: ", status |-> response.status],
        value |-> NoRoomTypeData]
  ELSE [threw |-> FALSE, error |-> NoError, value |-> response.body]

\* the simulated step endpoints answer with constant data and never fail
fetchStep1Analysis ==
  [optimizedRooms |-> 47, totalRooms |-> 52, improvementRate |-> 90, confidence |-> 98]

fetchStep2Analysis ==
  [energyConsumption |-> 45, reductionPercentage |-> 18, annualSavings |-> 7800]

\* renderView: the view shown for a step.  The page.tsx at hand predates the
\* step 'intermediate', which AnalysisStep declares and which HomeView and
\* IntermediateStepView set; that step shows IntermediateStepView.
ViewOf(step) ==
  CASE step = "home" -> "HomeView"
    [] step = "processing" -> "ProcessingView"
    [] step = "intermediate" -> "IntermediateStepView"
    [] step = "step1" -> "Step1View"
    [] step = "step2-processing" -> "Step2ProcessingView"
    [] step = "step2" -> "Step2View"
    [] step = "report" -> "ReportView"
    [] OTHER -> "HomeView"

\* effect cleanup of the view that goes away: isMounted = false for its call
Unmounted(p) == [i \in DOMAIN p |-> [p[i] EXCEPT !.isMounted = FALSE]]

\* the render after a state change from s0 to s1: when the view changes, the
\* old view is unmounted (its timer cleared, its call orphaned) and the new
\* view's effect runs
Render(s0, s1, p, t) ==
  LET new == ViewOf(s1.currentStep)
      q == Unmounted(p)
  IN IF new = ViewOf(s0.currentStep)
     THEN [state |-> s1, pendingCalls |-> p, timer |-> t]
     ELSE CASE new = "ProcessingView" ->
                 [state |-> setProcessing(s1, TRUE),
                  pendingCalls |-> Append(q, [api |-> "fetchStep1Analysis",
                                              isMounted |-> TRUE]),
                  timer |-> "none"]
            [] new = "Step2ProcessingView" ->
                 [state |-> setProcessing(s1, TRUE),
                  pendingCalls |-> Append(q, [api |-> "fetchStep2Analysis",
                                              isMounted |-> TRUE]),
                  timer |-> "none"]
            [] new = "Step1View" ->
                 IF ~s1.step1Visited
                 THEN [state |-> markStep1Visited(s1), pendingCalls |-> q,
                       timer |-> "Step1View"]
                 ELSE [state |-> s1, pendingCalls |-> q, timer |-> "none"]
            [] new = "Step2View" ->
                 IF ~s1.step2Visited
                 THEN [state |-> markStep2Visited(s1), pendingCalls |-> q,
                       timer |-> "Step2View"]
                 ELSE [state |-> s1, pendingCalls |-> q, timer |-> "none"]
            [] OTHER -> [state |-> s1, pendingCalls |-> q, timer |-> "none"]

WithoutCall(p, i) == [j \in 1..(Len(p) - 1) |-> IF j < i THEN p[j] ELSE p[j + 1]]

MaxReportRequests == 2

\* ReportView, "Collect all uploaded files": the slots that hold a file.  No
\* setUploadedFiles call fills a slot other than file1 and file2.
UploadedFileList(s) ==
  LET slots == <<s.uploadedFiles.file1, s.uploadedFiles.file2>>
  IN SelectSeq(slots, LAMBDA f : f # NoFile)

\* the instance of ReportView on screen has a request in flight
isGeneratingReport(rc) ==
  \E c \in DOMAIN rc : rc[c].status = "pending" /\ rc[c].isMounted

\* ReportView, generateReportData up to its await, for the state s and the
\* report requests rc so far; sent tells whether a request goes out
generateReportData(s, rc, data) ==
  IF data # NoReportGenerateData \/ isGeneratingReport(rc)
  THEN [state |-> s, reportCalls |-> rc, sent |-> FALSE]
  ELSE LET files == UploadedFileList(s)
       IN IF Len(files) > 0
          THEN [state |-> setProcessing(s, TRUE),
                reportCalls |-> Append(rc, [files |-> files,
                                            project_name |-> "Projekt",
                                            formats |-> "pdf,docx",
                                            status |-> "pending",
                                            isMounted |-> TRUE]),
                sent |-> TRUE]
          ELSE [state |-> setProcessing(s, FALSE), reportCalls |-> rc,
                sent |-> FALSE]

\* the effect of ReportView in the render after a state change from s0 to s1:
\* it runs when the view is mounted; a view that goes away leaves its
\* request behind
ReportEffect(s0, s1, rc, data) ==
  IF ViewOf(s1.currentStep) = ViewOf(s0.currentStep)
  THEN [state |-> s1, reportCalls |-> rc, sent |-> FALSE]
  ELSE IF ViewOf(s1.currentStep) = "ReportView"
  THEN generateReportData(s1, Unmounted(rc), data)
  ELSE [state |-> s1, reportCalls |-> Unmounted(rc), sent |-> FALSE]

\* a step that leaves the analysis state s1 and the pending calls p to render
RenderedWith(s1, p) ==
  LET r == Render(state, s1, p, timer)
      e == ReportEffect(state, r.state, reportCalls, reportGenerateData)
  IN /\ e.sent => Len(reportCalls) < MaxReportRequests
     /\ state' = e.state
     /\ reportCalls' = e.reportCalls
     /\ pendingCalls' = r.pendingCalls
     /\ timer' = r.timer

Rendered(s1) == RenderedWith(s1, pendingCalls)

\* mutant of HandleFileSelect: the upload leads straight to the power step
\* instead of waiting on the processing page
HandleFileSelectSkipsAhead(file1, file2) ==
  /\ ViewOf(state.currentStep) = "HomeView"
  /\ state.roomTypeData = NoRoomTypeData
  /\ Len(calls) < MaxUploads
  /\ Rendered(setCurrentStep(
                setProcessing(setUploadedFiles(state, file1, file2), TRUE),
                "intermediate"))
  /\ calls' = Append(calls, [file1 |-> file1, file2 |-> file2,
                             status |-> "pending", response |-> NoResponse])
  /\ UNCHANGED <<console, powerCalls, reportGenerateData, pvars, avars>>

\* HomeView.handleFileSelect up to its await: the upload area is shown while no
\* classification result is stored; ProcessingView is rendered and mounted
HandleFileSelect(file1, file2) ==
  /\ ViewOf(state.currentStep) = "HomeView"
  /\ state.roomTypeData = NoRoomTypeData
  /\ Len(calls) < MaxUploads
  /\ Rendered(setCurrentStep(
                setProcessing(setUploadedFiles(state, file1, file2), TRUE),
                "processing"))
  /\ calls' = Append(calls, [file1 |-> file1, file2 |-> file2,
                             status |-> "pending", response |-> NoResponse])
  /\ UNCHANGED <<console, powerCalls, reportGenerateData, pvars, avars>>

\* mutant of ClassifyResponds: the handler has no finally block, isProcessing
\* is left as it is
ClassifyRespondsWithoutFinally(c, response) ==
  /\ calls[c].status = "pending"
  /\ LET outcome == classifyRoomTypes(response)
     IN /\ Rendered(IF outcome.threw
                    THEN setCurrentStep(state, "home")
                    ELSE setCurrentStep(setRoomTypeData(state, outcome.value),
                                        "intermediate"))
        /\ console' = IF outcome.threw
                      THEN Append(console, [label |-> "Error classifying room types:",
                                            error |-> outcome.error])
                      ELSE console
        /\ calls' = [calls EXCEPT ![c].status = IF outcome.threw THEN "rejected"
                                                ELSE "resolved",
                                  ![c].response = response]
  /\ UNCHANGED <<powerCalls, reportGenerateData, pvars, avars>>

\* HomeView.handleFileSelect after its await: try, catch and finally
ClassifyResponds(c, response) ==
  /\ calls[c].status = "pending"
  /\ LET outcome == classifyRoomTypes(response)
     IN /\ Rendered(setProcessing(
                      IF outcome.threw
                      THEN setCurrentStep(state, "home")
                      ELSE setCurrentStep(setRoomTypeData(state, outcome.value),
                                          "intermediate"),
                      FALSE))
        /\ console' = IF outcome.threw
                      THEN Append(console, [label |-> "Error classifying room types:",
                                            error |-> outcome.error])
                      ELSE console
        /\ calls' = [calls EXCEPT ![c].status = IF outcome.threw THEN "rejected"
                                                ELSE "resolved",
                                  ![c].response = response]
  /\ UNCHANGED <<powerCalls, reportGenerateData, pvars, avars>>

\* mutant of Step1CallResolves: the continuation does not test isMounted
Step1CallResolvesUnguarded(i) ==
  /\ pendingCalls[i].api = "fetchStep1Analysis"
  /\ RenderedWith(setProcessing(
                    setCurrentStep(
                      markStep1Complete(setStep1Data(state, fetchStep1Analysis)),
                      "step1"),
                    FALSE),
                  WithoutCall(pendingCalls, i))
  /\ UNCHANGED <<calls, console, powerCalls, reportGenerateData, pvars, avars>>

\* ProcessingView, apiCall after its await
Step1CallResolves(i) ==
  /\ pendingCalls[i].api = "fetchStep1Analysis"
  /\ RenderedWith(IF pendingCalls[i].isMounted
                  THEN setProcessing(
                         setCurrentStep(
                           markStep1Complete(setStep1Data(state, fetchStep1Analysis)),
                           "step1"),
                         FALSE)
                  ELSE state,
                  WithoutCall(pendingCalls, i))
  /\ UNCHANGED <<calls, console, powerCalls, reportGenerateData, pvars, avars>>

\* Step2ProcessingView, apiCall after its await
Step2CallResolves(i) ==
  /\ pendingCalls[i].api = "fetchStep2Analysis"
  /\ RenderedWith(IF pendingCalls[i].isMounted
                  THEN setProcessing(
                         setCurrentStep(
                           markStep2Complete(setStep2Data(state, fetchStep2Analysis)),
                           "step2"),
                         FALSE)
                  ELSE state,
                  WithoutCall(pendingCalls, i))
  /\ UNCHANGED <<calls, console, powerCalls, reportGenerateData, pvars, avars>>

\* Step1View: the 2 s timer of the first visit
Step1TimerFires ==
  /\ timer = "Step1View"
  /\ Rendered(setCurrentStep(state, "step2-processing"))
  /\ UNCHANGED <<calls, console, powerCalls, reportGenerateData, pvars, avars>>

\* Step2View: the 2 s timer of the first visit
Step2TimerFires ==
  /\ timer = "Step2View"
  /\ Rendered(setCurrentStep(markReportComplete(state), "report"))
  /\ UNCHANGED <<calls, console, powerCalls, reportGenerateData, pvars, avars>>

\* mutant of StepPath: every step of a results view is clickable
StepPathOfAnyStep(view, index, s) ==
  IF view \in {"Step1View", "Step2View", "ReportView"}
  THEN (IF index = 0 THEN "step1" ELSE IF index = 1 THEN "step2" ELSE "report")
  ELSE "undefined"

\* the path each view gives the stepper's step number index
StepPath(view, index, s) ==
  CASE view \in {"Step1View"} ->
         IF index = 0 /\ s.step1Completed THEN "step1"
         ELSE IF index = 1 /\ (s.step2Completed \/ s.reportCompleted) THEN "step2"
         ELSE IF index = 2 /\ s.reportCompleted THEN "report"
         ELSE "undefined"
    [] view \in {"Step2View", "ReportView"} ->
         IF index = 0 /\ s.step1Completed THEN "step1"
         ELSE IF index = 1 /\ s.step2Completed THEN "step2"
         ELSE IF index = 2 /\ s.reportCompleted THEN "report"
         ELSE "undefined"
    [] view = "Step2ProcessingView" ->
         IF s.step1Completed /\ index = 0 THEN "step1" ELSE "undefined"
    [] OTHER -> "undefined"

ViewsWithStepper ==
  {"ProcessingView", "Step1View", "Step2ProcessingView", "Step2View", "ReportView"}

\* mutant of handleStepClick: navigation is not blocked while processing
handleStepClickUnblocked(s, path) ==
  IF path # "undefined" THEN setCurrentStep(s, path) ELSE s

\* ProgressStepper.handleStepClick
handleStepClick(s, path) ==
  IF s.isProcessing THEN s
  ELSE IF path # "undefined" THEN setCurrentStep(s, path)
  ELSE s

StepperClick(index) ==
  /\ ViewOf(state.currentStep) \in ViewsWithStepper
  /\ Rendered(handleStepClick(state, StepPath(ViewOf(state.currentStep), index, state)))
  /\ UNCHANGED <<calls, console, powerCalls, reportGenerateData, pvars, avars>>

\* HomeView showing the classification result: the "Weiter" button
HomeContinue ==
  /\ ViewOf(state.currentStep) = "HomeView"
  /\ state.roomTypeData # NoRoomTypeData
  /\ Rendered(setCurrentStep(state, "intermediate"))
  /\ UNCHANGED <<calls, console, powerCalls, reportGenerateData, pvars, avars>>

\* what POST /power/requirements can answer.  Rates are in tenths of their
\* unit (454 is 45.4 W/m2), areas and volumes in whole units.
PowerEstimate(nr, type, heating, ventilation, area) ==
  [room_nr |-> nr, room_type |-> type, heating_W_per_m2 |-> heating,
   cooling_W_per_m2 |-> 300, ventilation_m3_per_h |-> ventilation,
   area_m2 |-> area, volume_m3 |-> 3 * area]

SamplePowerEstimates ==
  { <<>>,
    <<PowerEstimate("1.01", 1, 454, 40, 20)>>,
    <<PowerEstimate("1.01", 1, 400, 40, 10), PowerEstimate("1.02", 2, 200, 80, 30)>> }

PowerResult(file1, file2, estimates) ==
  [heating_file |-> file1, ventilation_file |-> file2,
   merged_rows |-> Len(estimates), merged_columns |-> 7,
   power_estimates |-> estimates, performance_table |-> "performance.xlsx",
   message |-> "estimated"]

PowerResponses(file1, file2) ==
  {[kind |-> "http", ok |-> TRUE, status |-> 200, detail |-> "none",
    body |-> PowerResult(file1, file2, e)] : e \in SamplePowerEstimates}
  \cup {[kind |-> "http", ok |-> FALSE, status |-> 500, detail |-> "FileFormatError",
         body |-> NoPowerRequirementsData]}
  \cup {[kind |-> "network", ok |-> FALSE, status |-> 0, detail |-> "Failed to fetch",
         body |-> NoPowerRequirementsData]}

NoPowerResponse ==
  [kind |-> "none", ok |-> FALSE, status |-> 0, detail |-> "none",
   body |-> NoPowerRequirementsData]

\* generatePowerRequirements after its fetch has settled
generatePowerRequirements(response) ==
  IF response.kind = "network"
  THEN [threw |-> TRUE, error |-> [message |-> response.detail, status |-> 0],
        value |-> NoPowerRequirementsData]
  ELSE IF ~response.ok
  THEN [threw |-> TRUE,
        error |-> [message |-> "HTTP error! status: ", status |-> response.status],
        value |-> NoPowerRequirementsData]
  ELSE [threw |-> FALSE, error |-> NoError, value |-> response.body]

\* IntermediateStepView.handleFileSelect up to its await; the view and its
\* upload area stay on screen while the request is in flight
PowerFileSelect(file1, file2) ==
  /\ ViewOf(state.currentStep) = "IntermediateStepView"
  /\ Len(powerCalls) < MaxPowerUploads
  /\ Rendered(setProcessing(setUploadedFiles(state, file1, file2), TRUE))
  /\ powerCalls' = Append(powerCalls, [file1 |-> file1, file2 |-> file2,
                                       status |-> "pending",
                                       response |-> NoPowerResponse])
  /\ UNCHANGED <<calls, console, reportGenerateData, pvars, avars>>

\* IntermediateStepView.handleFileSelect after its await: try, catch, finally
PowerResponds(c, response) ==
  /\ powerCalls[c].status = "pending"
  /\ LET outcome == generatePowerRequirements(response)
     IN /\ Rendered(setProcessing(
                      IF outcome.threw
                      THEN setCurrentStep(state, "intermediate")
                      ELSE setCurrentStep(setPowerRequirementsData(state, outcome.value),
                                          "step1"),
                      FALSE))
        /\ console' = IF outcome.threw
                      THEN Append(console,
                                  [label |-> "Error generating power requirements:",
                                   error |-> outcome.error])
                      ELSE console
        /\ powerCalls' = [powerCalls EXCEPT
                            ![c].status = IF outcome.threw THEN "rejected"
                                          ELSE "resolved",
                            ![c].response = response]
  /\ UNCHANGED <<calls, reportGenerateData, pvars, avars>>

\* IntermediateStepView, progress steps: the first button leads back to the
\* classification result
IntermediateGoHome ==
  /\ ViewOf(state.currentStep) = "IntermediateStepView"
  /\ state.roomTypeData # NoRoomTypeData
  /\ Rendered(setCurrentStep(state, "home"))
  /\ UNCHANGED <<calls, console, powerCalls, reportGenerateData, pvars, avars>>

\* what POST /report/generate can answer for the files it was sent
ReportResult(files, projectName, formats) ==
  [project_name |-> projectName, file_count |-> Len(files),
   formats_generated |-> formats, message |-> "generated"]

ReportResponses(call) ==
  {[kind |-> "http", ok |-> TRUE, status |-> 200,
    body |-> ReportResult(call.files, call.project_name, call.formats)],
   [kind |-> "http", ok |-> FALSE, status |-> 500, body |-> NoReportGenerateData]}

\* generateReport after its fetch has settled
generateReport(response) ==
  IF ~response.ok
  THEN [threw |-> TRUE,
        error |-> [message |-> "HTTP error! status: ", status |-> response.status],
        value |-> NoReportGenerateData]
  ELSE [threw |-> FALSE, error |-> NoError, value |-> response.body]

\* ReportView, generateReportData after its await: try, catch and finally,
\* and the effect run that the change of isGeneratingReport causes in the
\* instance still on screen
ReportResponds(c, response) ==
  /\ reportCalls[c].status = "pending"
  /\ LET outcome == generateReport(response)
         data == IF outcome.threw THEN reportGenerateData ELSE outcome.value
         rc == [reportCalls EXCEPT ![c].status = IF outcome.threw THEN "rejected"
                                                 ELSE "resolved"]
         s1 == setProcessing(state, FALSE)
         e == IF reportCalls[c].isMounted
              THEN generateReportData(s1, rc, data)
              ELSE [state |-> s1, reportCalls |-> rc, sent |-> FALSE]
     IN /\ e.sent => Len(reportCalls) < MaxReportRequests
        /\ reportGenerateData' = data
        /\ state' = e.state
        /\ reportCalls' = e.reportCalls
        /\ console' = IF outcome.threw
                      THEN Append(console, [label |-> "Error generating report:",
                                            error |-> outcome.error])
                      ELSE console
  /\ UNCHANGED <<calls, powerCalls, pendingCalls, timer, pvars, avars>>

\* Math.round of the quotient num / den of two naturals, den > 0
MathRound(num, den) == (2 * num + den) \div (2 * den)

NaN == [nan |-> TRUE, value |-> 0]

Number(x) == [nan |-> FALSE, value |-> x]

\* the sum of the rates shown instead of their average
HeatingSumShown(data) ==
  LET es == data.power_estimates
  IN IF Len(es) = 0 THEN NaN
     ELSE Number(MathRound(SumOver(es, DOMAIN es, "heating_W_per_m2"), 10))

\* IntermediateStepView, "Durchschnittliche Heizleistung": the rounded sum of
\* the rooms' heating rates over the number of rooms (0 / 0 is NaN), in W/m2
AverageHeatingShown(data) ==
  LET es == data.power_estimates
  IN IF Len(es) = 0 THEN NaN
     ELSE Number(MathRound(SumOver(es, DOMAIN es, "heating_W_per_m2"), 10 * Len(es)))

\* IntermediateStepView, "Durchschnittliche Lueftung"
AverageVentilationShown(data) ==
  LET es == data.power_estimates
  IN IF Len(es) = 0 THEN NaN
     ELSE Number(MathRound(SumOver(es, DOMAIN es, "ventilation_m3_per_h"), 10 * Len(es)))

(***************************************************************************)
(* ReportView: the monthly cost data behind the chart and the figures of   *)
(* the parameter table, in euro.                                           *)
(***************************************************************************)
CostMonth(month, standard, optimized) ==
  [month |-> month, standard |-> standard, optimized |-> optimized]

costData ==
  << CostMonth("Jan", 4200, 3100), CostMonth("Feb", 3800, 2900),
     CostMonth("Mär", 3200, 2500), CostMonth("Apr", 2400, 1900),
     CostMonth("Mai", 1800, 1400), CostMonth("Jun", 1200, 900),
     CostMonth("Jul", 800, 600), CostMonth("Aug", 900, 700),
     CostMonth("Sep", 1600, 1200), CostMonth("Okt", 2800, 2100),
     CostMonth("Nov", 3600, 2700), CostMonth("Dez", 4100, 3000) >>

RECURSIVE reduce(_, _, _)
\* Array.prototype.reduce((sum, item) => sum + item[field], sum)
reduce(items, field, sum) ==
  IF items = <<>> THEN sum
  ELSE reduce(Tail(items), field, sum + Head(items)[field])

totalStandard == reduce(costData, "standard", 0)

totalOptimized == reduce(costData, "optimized", 0)

totalSavings == totalStandard - totalOptimized

\* the row "€/Jahr" of the parameter table
tableStandardPerYear == 30300

tableOptimizedPerYear == 22500

tableSavingPerYear == 7800

(***************************************************************************)
(* The upload area (components/UploadArea.tsx): three slots, each with its *)
(* selected file and its error message.  A file is its name, a sequence of *)
(* one-character strings, and its size in bytes.                           *)
(***************************************************************************)
NumSlots == 3

Slots == 1..NumSlots

maxSizeMB == 10

maxSizeBytes == maxSizeMB * 1024 * 1024

acceptedFormats == {<<".", "x", "l", "s", "x">>, <<".", "x", "l", "s">>}

\* String.prototype.toLowerCase over the alphabet of the sample names
LowerChar(c) ==
  CASE c = "A" -> "a"
    [] c = "X" -> "x"
    [] c = "L" -> "l"
    [] c = "S" -> "s"
    [] OTHER -> c

toLowerCase(str) == [i \in DOMAIN str |-> LowerChar(str[i])]

RECURSIVE split(_, _, _)
\* String.prototype.split: the pieces between the separators, empty pieces
\* included; cur is the piece being read
split(str, sep, cur) ==
  IF str = <<>> THEN <<cur>>
  ELSE IF Head(str) = sep THEN <<cur>> \o split(Tail(str), sep, <<>>)
       ELSE split(Tail(str), sep, Append(cur, Head(str)))

\* Array.prototype.pop: the last element
pop(array) == array[Len(array)]

\* '.' + file.name.split('.').pop()?.toLowerCase()
fileExtension(name) == <<".">> \o toLowerCase(pop(split(name, ".", <<>>)))

NoErrorMessage == ""

TooLarge == "Datei ist zu groß. Maximum: 10MB"

InvalidFormat == "Ungültiges Dateiformat. Erlaubt: .xlsx, .xls"

\* validateFile: the verdict and the message it sets for the slot
validateFile(file) ==
  IF file.size > maxSizeBytes THEN [ok |-> FALSE, error |-> TooLarge]
  ELSE IF fileExtension(file.name) \notin acceptedFormats
  THEN [ok |-> FALSE, error |-> InvalidFormat]
  ELSE [ok |-> TRUE, error |-> NoErrorMessage]

NoSelectedFile == [name |-> <<>>, size |-> -1]

NoCall == [fired |-> FALSE, files |-> [k \in Slots |-> NoSelectedFile]]

\* the files a user can drop: accepted ones (lower and upper case, one of
\* exactly the maximum size, one whose name has no '.'), and rejected ones
SampleFiles ==
  { [name |-> <<"a", ".", "x", "l", "s", "x">>, size |-> 2048],
    [name |-> <<"A", ".", "X", "L", "S">>, size |-> maxSizeBytes],
    [name |-> <<"a", ".", "x", "l", "s">>, size |-> maxSizeBytes + 1],
    [name |-> <<"a", ".", "c", "s", "v">>, size |-> 2048],
    [name |-> <<"a", ".", "x", "l", "s", ".", "c", "s", "v">>, size |-> 2048],
    [name |-> <<"x", "l", "s", "x">>, size |-> 2048] }

UploadAreaIdle ==
  /\ selectedFile = [k \in Slots |-> NoSelectedFile]
  /\ error = [k \in Slots |-> NoErrorMessage]
  /\ onFileSelect = NoCall

\* mutant of handleFile: the callback is triggered as soon as one other slot
\* holds a file
handleFileOneOther(k, file) ==
  LET verdict == validateFile(file)
      others == \E j \in Slots \ {k} : selectedFile[j] # NoSelectedFile
  IN /\ error' = [error EXCEPT ![k] = verdict.error]
     /\ selectedFile' = IF verdict.ok THEN [selectedFile EXCEPT ![k] = file]
                        ELSE selectedFile
     /\ onFileSelect' = IF verdict.ok /\ others
                        THEN [fired |-> TRUE,
                              files |-> [selectedFile EXCEPT ![k] = file]]
                        ELSE NoCall
     /\ UNCHANGED <<pvars, uvars>>

\* handleFile1, handleFile2, handleFile3: a file is dropped on, or picked
\* for, slot k
handleFile(k, file) ==
  LET verdict == validateFile(file)
      others == \A j \in Slots \ {k} : selectedFile[j] # NoSelectedFile
  IN /\ error' = [error EXCEPT ![k] = verdict.error]
     /\ selectedFile' = IF verdict.ok THEN [selectedFile EXCEPT ![k] = file]
                        ELSE selectedFile
     /\ onFileSelect' = IF verdict.ok /\ others
                        THEN [fired |-> TRUE,
                              files |-> [selectedFile EXCEPT ![k] = file]]
                        ELSE NoCall
     /\ UNCHANGED <<pvars, uvars>>

\* handleRemove1, handleRemove2, handleRemove3
handleRemove(k) ==
  /\ selectedFile[k] # NoSelectedFile
  /\ selectedFile' = [selectedFile EXCEPT ![k] = NoSelectedFile]
  /\ error' = [error EXCEPT ![k] = NoErrorMessage]
  /\ onFileSelect' = NoCall
  /\ UNCHANGED <<pvars, uvars>>

(***************************************************************************)
(* PART 8 -- the pipeline run as a state machine (spec.md 4.5 and 5).      *)
(* The inputs (catalog entries, room book, capability stub) are shared and *)
(* read-only; every run owns its record in run.                            *)
(***************************************************************************)
RunIds == {1, 2}

NoCatalog == [status |-> "none", types |-> <<>>]

NoFailure == [stage |-> "none", reason |-> "none", subgroup |-> "none"]

NoCost == [table |-> [sg \in {} |-> 0], factors |-> [markup |-> 0],
           k |-> 0, items |-> <<>>, total |-> 0]

NoSummary == [grand_total_cost |-> -1, item_count |-> -1]

IdleRun ==
  [pc |-> "idle", catalog |-> NoCatalog, slot |-> <<>>, order |-> <<>>,
   output |-> <<>>, rows |-> -1, power |-> <<>>, aggregate |-> [total_area |-> -1],
   cost |-> NoCost, summary |-> NoSummary, boq |-> <<>>, failure |-> NoFailure]

StartedRun == [IdleRun EXCEPT !.pc = "start"]

\* catalog load: fail fast on a conflict
LoadCatalogStep(r) ==
  /\ run[r].pc = "start"
  /\ LET c == LoadCatalog(entries)
     IN IF c.status = "ok"
        THEN run' = [run EXCEPT ![r].pc = "classifying",
                                ![r].catalog = c,
                                ![r].slot = [i \in DOMAIN rooms |->
                                               [state |-> "todo", result |-> NoResult]]]
        ELSE run' = [run EXCEPT ![r].pc = "failed",
                                ![r].failure = [stage |-> "catalog",
                                                reason |-> "CatalogConflict",
                                                subgroup |-> "none"]]
  /\ UNCHANGED <<entries, rooms, stub, uvars, avars>>

\* a worker scores room i; the room is finished unless the capability is asked
ScoreRoom(r, i) ==
  /\ run[r].pc = "classifying"
  /\ run[r].slot[i].state = "todo"
  /\ IF NeedsFallback(rooms[i], run[r].catalog)
     THEN run' = [run EXCEPT ![r].slot[i].state = "waiting"]
     ELSE run' = [run EXCEPT ![r].slot[i] =
                               [state |-> "done",
                                result |-> LexicalResult(rooms[i], run[r].catalog)],
                             ![r].order = Append(@, i)]
  /\ UNCHANGED <<entries, rooms, stub, uvars, avars>>

\* the capability's call for room i ends: an answer, a timeout or an error
FallbackReturn(r, i) ==
  /\ run[r].pc = "classifying"
  /\ run[r].slot[i].state = "waiting"
  /\ LET outcome == StubRank(stub, Normalize(rooms[i].name),
                             TopCandidates(rooms[i], run[r].catalog))
     IN run' = [run EXCEPT ![r].slot[i] =
                             [state |-> "done",
                              result |-> FallbackResult(rooms[i], run[r].catalog, outcome)],
                           ![r].order = Append(@, i)]
  /\ UNCHANGED <<entries, rooms, stub, uvars, avars>>

\* mutant of AssembleResults: results in the order the workers finished
AssembleInCompletionOrder(slot, order) ==
  [k \in DOMAIN order |-> slot[order[k]].result]

\* the results in the order of the room book
AssembleResults(slot, order) == [i \in DOMAIN slot |-> slot[i].result]

\* the barrier: every room is finished; the classify output is assembled and
\* the workers' bookkeeping is dropped
Assemble(r) ==
  /\ run[r].pc = "classifying"
  /\ \A i \in DOMAIN run[r].slot : run[r].slot[i].state = "done"
  /\ LET out == AssembleResults(run[r].slot, run[r].order)
     IN run' = [run EXCEPT ![r].pc = "classified",
                           ![r].output = out,
                           ![r].rows = Len(out),
                           ![r].slot = <<>>,
                           ![r].order = <<>>]
  /\ UNCHANGED <<entries, rooms, stub, uvars, avars>>

EstimatePowerStep(r) ==
  /\ run[r].pc = "classified"
  /\ LET p == EstimatePower(rooms, run[r].output, run[r].catalog)
     IN run' = [run EXCEPT ![r].pc = "powered",
                           ![r].power = p,
                           ![r].aggregate = Aggregate(rooms, p)]
  /\ UNCHANGED <<entries, rooms, stub, uvars, avars>>

\* cost estimation is requested with a cost-factor table and the factors
StartCost(r, table, factors) ==
  /\ run[r].pc = "powered"
  /\ run' = [run EXCEPT ![r].pc = "costing",
                        ![r].cost = [table |-> table, factors |-> factors, k |-> 1,
                                     items |-> <<>>, total |-> 0]]
  /\ UNCHANGED <<entries, rooms, stub, uvars, avars>>

\* mutant of FactorMissing: an absent entry is never reported
FactorNeverMissing(table, sg) == FALSE

FactorMissing(table, sg) == table[sg] = Missing

\* the next subgroup: skipped when not needed, fatal when its factor is
\* missing, otherwise one more line item
CostStep(r) ==
  /\ run[r].pc = "costing"
  /\ run[r].cost.k <= Len(SubgroupOrder)
  /\ LET c == run[r].cost
         sg == SubgroupOrder[c.k]
     IN IF sg \notin RequiredSubgroups(run[r].aggregate)
        THEN run' = [run EXCEPT ![r].cost.k = @ + 1]
        ELSE IF FactorMissing(c.table, sg)
        THEN run' = [run EXCEPT ![r].pc = "failed",
                                ![r].cost.items = <<>>,
                                ![r].cost.total = 0,
                                ![r].failure = [stage |-> "cost",
                                                reason |-> "MissingCostFactor",
                                                subgroup |-> sg]]
        ELSE LET item == LineItem(sg, run[r].aggregate, c.table, c.factors)
             IN run' = [run EXCEPT ![r].cost.k = @ + 1,
                                   ![r].cost.items = Append(@, item),
                                   ![r].cost.total = AddToTotal(@, item)]
  /\ UNCHANGED <<entries, rooms, stub, uvars, avars>>

\* all subgroups done: the CostSummary and the line items are the output
FinishCost(r) ==
  /\ run[r].pc = "costing"
  /\ run[r].cost.k > Len(SubgroupOrder)
  /\ run' = [run EXCEPT ![r].pc = "done",
                        ![r].summary = [grand_total_cost |-> run[r].cost.total,
                                        item_count |-> Len(run[r].cost.items)],
                        ![r].boq = run[r].cost.items]
  /\ UNCHANGED <<entries, rooms, stub, uvars, avars>>

\* the dashboard before any upload
DashboardIdle ==
  /\ state = initialState
  /\ calls = <<>>
  /\ powerCalls = <<>>
  /\ pendingCalls = <<>>
  /\ timer = "none"
  /\ console = <<>>
  /\ reportCalls = <<>>
  /\ reportGenerateData = NoReportGenerateData
  /\ UploadAreaIdle

PipelineInit ==
  /\ DashboardIdle
  /\ entries \in SampleEntries
  /\ rooms \in RoomBooks
  /\ stub \in Stubs
  /\ run = [r \in RunIds |-> IF r = 1 THEN StartedRun ELSE IdleRun]

PipelineNext ==
  \E r \in RunIds :
    \/ LoadCatalogStep(r)
    \/ \E i \in DOMAIN rooms : ScoreRoom(r, i)
    \/ \E i \in DOMAIN rooms : FallbackReturn(r, i)
    \/ Assemble(r)
    \/ EstimatePowerStep(r)
    \/ \E t \in CostTables, f \in FactorSets : StartCost(r, t, f)
    \/ CostStep(r)
    \/ FinishCost(r)

PipelineSpec == PipelineInit /\ [][PipelineNext]_vars

\* two runs of classification over the same room book, catalog and stub,
\* their workers interleaved freely
TwoRunInit ==
  /\ DashboardIdle
  /\ entries \in SampleEntries
  /\ rooms \in RoomBooksOf({k \in SampleRoomKinds : k.area # Missing /\ k.name # S_BueroWC})
  /\ stub \in {"confident", "flaky", "timeout"}
  /\ run = [r \in RunIds |-> StartedRun]

TwoRunNext ==
  \E r \in RunIds :
    \/ LoadCatalogStep(r)
    \/ \E i \in DOMAIN rooms : ScoreRoom(r, i)
    \/ \E i \in DOMAIN rooms : FallbackReturn(r, i)
    \/ Assemble(r)

TwoRunSpec == TwoRunInit /\ [][TwoRunNext]_vars

\* the dashboard alone: no pipeline run of the model is in progress
Init ==
  /\ DashboardIdle
  /\ entries = <<T_Office, T_StaffWC>>
  /\ rooms = <<>>
  /\ stub = "confident"
  /\ run = [r \in RunIds |-> IdleRun]

Next ==
  \/ \E f \in Files : HandleFileSelect(f.file1, f.file2)
  \/ \E c \in DOMAIN calls :
       \E response \in ClassifyResponses(calls[c].file1, calls[c].file2) :
         ClassifyResponds(c, response)
  \/ \E i \in DOMAIN pendingCalls : Step1CallResolves(i)
  \/ \E i \in DOMAIN pendingCalls : Step2CallResolves(i)
  \/ Step1TimerFires
  \/ Step2TimerFires
  \/ \E index \in 0..2 : StepperClick(index)
  \/ HomeContinue
  \/ \E f \in PowerFiles : PowerFileSelect(f.file1, f.file2)
  \/ \E c \in DOMAIN powerCalls :
       \E response \in PowerResponses(powerCalls[c].file1, powerCalls[c].file2) :
         PowerResponds(c, response)
  \/ IntermediateGoHome
  \/ \E c \in DOMAIN reportCalls :
       \E response \in ReportResponses(reportCalls[c]) : ReportResponds(c, response)

Spec == Init /\ [][Next]_vars

\* the dashboard with what happens without the user: a timer that is set
\* fires unless it is cleared, a simulated call resolves, and the backend
\* answers every request
Fairness ==
  /\ WF_vars(Step1TimerFires)
  /\ WF_vars(Step2TimerFires)
  /\ WF_vars(\E i \in DOMAIN pendingCalls : Step1CallResolves(i))
  /\ WF_vars(\E i \in DOMAIN pendingCalls : Step2CallResolves(i))
  /\ WF_vars(\E c \in DOMAIN calls :
               \E response \in ClassifyResponses(calls[c].file1, calls[c].file2) :
                 ClassifyResponds(c, response))
  /\ WF_vars(\E c \in DOMAIN powerCalls :
               \E response \in PowerResponses(powerCalls[c].file1, powerCalls[c].file2) :
                 PowerResponds(c, response))
  /\ WF_vars(\E c \in DOMAIN reportCalls :
               \E response \in ReportResponses(reportCalls[c]) :
                 ReportResponds(c, response))

FairSpec == Spec /\ Fairness

\* the upload area alone
UploadNext ==
  \/ \E k \in Slots, file \in SampleFiles : handleFile(k, file)
  \/ \E k \in Slots : handleRemove(k)

UploadSpec == Init /\ [][UploadNext]_vars

(***************************************************************************)
(* PART 9 -- the claims about the pipeline.                                *)
(***************************************************************************)
Classified(r) == run[r].rows # -1

\* C1: classification returns exactly one ClassificationResult per input
\* room, in the order of the input, and the reported row count is the number
\* of input rooms, UNCLASSIFIED rooms included.
C1_OneResultPerRoomInOrder ==
  \A r \in RunIds :
    Classified(r) =>
      /\ Len(run[r].output) = Len(rooms)
      /\ \A i \in DOMAIN rooms : run[r].output[i].room = rooms[i].id
      /\ run[r].rows = Len(rooms)

\* a finished classification of two rooms, the first UNCLASSIFIED and the
\* second resolved through the capability
C1_Witness ==
  /\ Classified(1)
  /\ Len(rooms) = 2
  /\ run[1].output[1].type = Unclassified
  /\ run[1].output[2].type # Unclassified
  /\ run[1].output[2].provenance = "semantic"

\* C2: a room whose normalized name exactly equals a registered synonym gets
\* confidence 1.0 and the type that owns that synonym.
C2_ExactSynonymGetsOwner ==
  \A r \in RunIds :
    Classified(r) =>
      \A i \in DOMAIN rooms :
        \A k \in DOMAIN run[r].catalog.types :
          \A s \in run[r].catalog.types[k].synonyms :
            Normalize(rooms[i].name) = Normalize(s) =>
              /\ run[r].output[i].confidence = 100
              /\ run[r].output[i].type = run[r].catalog.types[k].code

\* C3: with a fixed catalog and a fixed stub, two runs over the same room
\* book produce identical result sequences.
C3_Deterministic ==
  (Classified(1) /\ Classified(2)) => run[1].output = run[2].output

\* both runs have finished a room book of two rooms, one of them through the
\* capability
C3_Witness ==
  /\ Classified(1)
  /\ Classified(2)
  /\ Len(rooms) = 2
  /\ \E i \in DOMAIN rooms : run[1].output[i].provenance \in {"semantic", "lexical_degraded"}
  /\ \E i \in DOMAIN rooms : run[1].output[i].provenance = "lexical"
  /\ run[1].output[1] # [run[1].output[2] EXCEPT !.room = 1]

\* C4: grand_total_cost equals the sum of the final prices of the line
\* items, within 1e-6 times the item count (prices are in units of 1/1000).
C4_GrandTotalIsSum ==
  \A r \in RunIds :
    run[r].pc = "done" =>
      1000 * Abs(run[r].summary.grand_total_cost - SumFinal(run[r].boq))
        <= Len(run[r].boq)

\* a finished estimate of three line items with a price that display
\* rounding would change
C4_Witness ==
  /\ run[1].pc = "done"
  /\ Len(run[1].boq) = 3
  /\ \E k \in DOMAIN run[1].boq :
       RoundToCurrency(run[1].boq[k].total_final_price) # run[1].boq[k].total_final_price

CostEnded(r) ==
  \/ run[r].pc = "done"
  \/ run[r].pc = "failed" /\ run[r].failure.stage = "cost"

MissingRequired(r) ==
  {sg \in RequiredSubgroups(run[r].aggregate) : run[r].cost.table[sg] = Missing}

\* C6: when the cost-factor table lacks a subgroup the project requires,
\* cost estimation ends in MissingCostFactor naming such a subgroup, with no
\* summary and no line items; the trade is never silently left out.
C6_MissingCostFactorAborts ==
  \A r \in RunIds :
    (CostEnded(r) /\ MissingRequired(r) # {}) =>
      /\ run[r].pc = "failed"
      /\ run[r].failure.reason = "MissingCostFactor"
      /\ run[r].failure.subgroup \in MissingRequired(r)
      /\ run[r].summary = NoSummary
      /\ run[r].boq = <<>>
      /\ run[r].cost.items = <<>>

\* the table lacks ventilation distribution, which the project requires, and
\* the run has been aborted after the other subgroups were priced
C6_Witness ==
  /\ run[1].pc = "failed"
  /\ run[1].failure.reason = "MissingCostFactor"
  /\ run[1].failure.subgroup = "ventilation_distribution"
  /\ run[1].cost.k = 3

EveryTypeCodeUnique ==
  Cardinality({entries[i].code : i \in DOMAIN entries}) = Len(entries)

EverySynonymHasOneOwner ==
  \A s \in UNION {entries[i].synonyms : i \in DOMAIN entries} :
    Cardinality({i \in DOMAIN entries : s \in entries[i].synonyms}) = 1

\* C7: the catalog load succeeds only if every synonym string belongs to
\* exactly one type and every type code is unique; otherwise it fails with
\* CatalogConflict and there is no catalog.
C7_CatalogLoadValidates ==
  \A r \in RunIds :
    /\ run[r].catalog.status = "ok" => (EveryTypeCodeUnique /\ EverySynonymHasOneOwner)
    /\ (run[r].pc \notin {"idle", "start"} /\ ~(EveryTypeCodeUnique /\ EverySynonymHasOneOwner))
         => /\ run[r].pc = "failed"
            /\ run[r].failure.reason = "CatalogConflict"
            /\ run[r].catalog = NoCatalog

\* a load refused because one type code is used by two types
C7_Witness ==
  /\ run[1].pc = "failed"
  /\ run[1].failure.reason = "CatalogConflict"
  /\ ~EveryTypeCodeUnique
  /\ EverySynonymHasOneOwner

Powered(r) == run[r].aggregate.total_area # -1

\* C8: power estimation yields exactly one PowerEstimate per room, the
\* UNCLASSIFIED rooms included, which get the generic default benchmark, and
\* every estimate carries the classification confidence.
C8_OneEstimatePerRoomWithConfidence ==
  \A r \in RunIds :
    Powered(r) =>
      LET resp == ToPowerRequirementsResponse(run[r].power)
      IN /\ DOMAIN resp.power_estimates = DOMAIN rooms
         /\ \A i \in DOMAIN rooms :
              /\ resp.power_estimates[i].room_nr = rooms[i].id
              /\ run[r].output[i].type = Unclassified =>
                   resp.power_estimates[i].heating_W_per_m2 = DefaultBenchmark.heating
              /\ "confidence" \in DOMAIN resp.power_estimates[i]
              /\ resp.power_estimates[i].confidence = run[r].output[i].confidence

FallbackFailed(r, i) ==
  /\ NeedsFallback(rooms[i], run[r].catalog)
  /\ StubRank(stub, Normalize(rooms[i].name),
              TopCandidates(rooms[i], run[r].catalog)).status \in {"timeout", "error"}

ClassificationNeverFatal(r) ==
  run[r].pc = "failed" => run[r].failure.stage \in {"catalog", "cost"}

\* some step of the classification can be taken: the guard of ScoreRoom, of
\* FallbackReturn or of Assemble holds
ClassificationNotBlocked(r) ==
  run[r].pc = "classifying" =>
    \/ \E i \in DOMAIN rooms : run[r].slot[i].state = "todo"
    \/ \E i \in DOMAIN rooms : run[r].slot[i].state = "waiting"
    \/ \A i \in DOMAIN run[r].slot : run[r].slot[i].state = "done"

\* C9: a timeout or error of the capability for one room neither aborts nor
\* blocks the batch: that room gets the lexical-only match with a confidence
\* lowered by the penalty (never above the lexical score, below it whenever
\* the score is positive) and the degradation marker, and every room has the
\* result it would have on its own.
C9_FallbackFailureDegradesOneRoom ==
  \A r \in RunIds :
    /\ ClassificationNeverFatal(r)
    /\ ClassificationNotBlocked(r)
    /\ Classified(r) =>
         \A i \in DOMAIN rooms :
           /\ run[r].output[i] = ClassifyRoom(rooms[i], run[r].catalog, stub)
           /\ run[r].output[i].provenance # "none"
           /\ FallbackFailed(r, i) =>
                LET lex == LexicalMatch(rooms[i], run[r].catalog)
                IN /\ run[r].output[i].provenance = "lexical_degraded"
                   /\ run[r].output[i].type = lex.type
                   /\ run[r].output[i].confidence <= lex.score
                   /\ lex.score > 0 => run[r].output[i].confidence < lex.score

\* the capability timed out for the first room (lexical score 50, kept with
\* confidence 40) and answered for the second
C9_Witness ==
  /\ Classified(1)
  /\ Len(rooms) = 2
  /\ FallbackFailed(1, 1)
  /\ run[1].output[1].provenance = "lexical_degraded"
  /\ run[1].output[1].type = 2
  /\ run[1].output[1].confidence = 40
  /\ run[1].output[2].provenance = "semantic"

MalformedUnmatched(r, i) ==
  /\ AreaMalformed(rooms[i])
  /\ ~HasSynonymMatch(Normalize(rooms[i].name), run[r].catalog)

\* C10: a room with missing or malformed area/volume and no synonym match is
\* recorded as UNCLASSIFIED with confidence 0.0; classification raises no
\* error for it and the other rooms are classified.
C10_MalformedUnmatchedIsUnclassified ==
  \A r \in RunIds :
    /\ ClassificationNeverFatal(r)
    /\ Classified(r) =>
         /\ Len(run[r].output) = Len(rooms)
         /\ \A i \in DOMAIN rooms :
              MalformedUnmatched(r, i) =>
                /\ run[r].output[i].room = rooms[i].id
                /\ run[r].output[i].type = Unclassified
                /\ run[r].output[i].confidence = 0

\* a malformed room without a synonym match is in the results as
\* UNCLASSIFIED next to a classified room, under a stub that would have
\* answered for it
C10_Witness ==
  /\ Classified(1)
  /\ Len(rooms) = 2
  /\ stub = "confident"
  /\ MalformedUnmatched(1, 1)
  /\ run[1].output[1].type = Unclassified
  /\ run[1].output[1].confidence = 0
  /\ run[1].output[2].type = 1
  /\ run[1].output[2].confidence = 100

(***************************************************************************)
(* PART 10 -- the claims about the dashboard.                              *)
(***************************************************************************)
RunEnded(c) == calls[c].status # "pending"

\* every text the dashboard keeps that could name why a run failed: the
\* messages of the errors it logged and the message of the stored result
ReasonsHeld ==
  {console[i].error.message : i \in DOMAIN console} \cup {state.roomTypeData.message}

\* C5: every run that has ended either completed, and its result is the stored
\* result, or failed, and the dashboard holds the specific fatal reason of
\* that failure; no ended run has neither.
C5_RunEndsWithResultOrReason ==
  \A c \in DOMAIN calls :
    RunEnded(c) =>
      \/ calls[c].status = "resolved" /\ state.roomTypeData = calls[c].response.body
      \/ calls[c].status = "rejected" /\ calls[c].response.detail \in ReasonsHeld

PowerStored == state.powerRequirementsData # NoPowerRequirementsData

StoredEstimates == state.powerRequirementsData.power_estimates

\* the rounded area-weighted average of the heating rates, in W/m2
WeightedAverageHeating(es) ==
  LET area == SumOver(es, DOMAIN es, "area_m2")
      load == SumOver([i \in DOMAIN es |-> [q |-> es[i].heating_W_per_m2 * es[i].area_m2]],
                      DOMAIN es, "q")
  IN IF area = 0 THEN NaN ELSE Number(MathRound(load, 10 * area))

\* C11: the building-level average heating rate is weighted by room area:
\* the average shown for the stored estimates equals the sum of rate times
\* area over the sum of the areas.
C11_AverageHeatingIsAreaWeighted ==
  PowerStored => AverageHeatingShown(state.powerRequirementsData)
                   = WeightedAverageHeating(StoredEstimates)

HeatingRates == {StoredEstimates[i].heating_W_per_m2 : i \in DOMAIN StoredEstimates}

MinRate == CHOOSE x \in HeatingRates : \A y \in HeatingRates : x <= y

MaxRate == CHOOSE x \in HeatingRates : \A y \in HeatingRates : y <= x

PowerStarts == Len(powerCalls') > Len(powerCalls)

ClassificationFinished ==
  /\ state.roomTypeData # NoRoomTypeData
  /\ \A c \in DOMAIN calls : calls[c].status # "pending"
  /\ \E c \in DOMAIN calls :
       /\ calls[c].status = "resolved"
       /\ calls[c].response.body = state.roomTypeData

C13_PipelineStagesInOrder ==
  \A r \in RunIds :
    /\ run[r].power # <<>> \/ run[r].aggregate.total_area # -1 =>
         /\ Len(run[r].output) = Len(rooms)
         /\ run[r].slot = <<>>
         /\ run[r].rows = Len(rooms)
    /\ run[r].cost # NoCost =>
         /\ Len(run[r].power) = Len(rooms)
         /\ run[r].aggregate.total_area # -1

\* every request to POST /power/requirements has been answered
PowerSettled == \A c \in DOMAIN powerCalls : powerCalls[c].status # "pending"

\* C14: two runs whose requests overlap do not interfere: each run's results
\* are those it would have produced alone, and no run overwrites another
\* run's results.  Alone, the upload made last ends with its own answer in
\* the analysis state; so it must when an earlier upload is answered late.
C14_OverlappingRunsDoNotInterfere ==
  LET last == Len(powerCalls)
  IN (last > 0 /\ PowerSettled /\ powerCalls[last].status = "resolved")
       => state.powerRequirementsData = powerCalls[last].response.body

\* this step is the continuation of classify call c / of power call c
ClassifyCallEnds(c) == calls[c].status = "pending" /\ calls'[c].status # "pending"

PowerCallEnds(c) ==
  powerCalls[c].status = "pending" /\ powerCalls'[c].status # "pending"

\* this step is the continuation of a simulated call whose view is gone
OrphanedCallEnds ==
  \E i \in DOMAIN pendingCalls :
    /\ ~pendingCalls[i].isMounted
    /\ pendingCalls' = WithoutCall(pendingCalls, i)

ResultsUntouched ==
  /\ state'.roomTypeData = state.roomTypeData
  /\ state'.powerRequirementsData = state.powerRequirementsData
  /\ state'.step1Data = state.step1Data
  /\ state'.step2Data = state.step2Data

\* C15: after the view that started a call has been unmounted, no result of
\* that call is written to the analysis state.
C15_NoResultWrittenAfterUnmount ==
  [][(\A c \in DOMAIN calls :
        ClassifyCallEnds(c) /\ ViewOf(state.currentStep) # "HomeView"
          => ResultsUntouched)
     /\ (\A c \in DOMAIN powerCalls :
           PowerCallEnds(c) /\ ViewOf(state.currentStep) # "IntermediateStepView"
             => ResultsUntouched)
     /\ ((OrphanedCallEnds /\ calls' = calls /\ powerCalls' = powerCalls)
           => ResultsUntouched)]_vars

\* C15 for the simulated calls alone, which carry the isMounted guard
C15_GuardedCallsWriteNothingAfterUnmount ==
  [][(OrphanedCallEnds /\ calls' = calls /\ powerCalls' = powerCalls)
       => ResultsUntouched]_vars

\* C15 for the power call alone, left behind by the first progress button
C15_PowerResultNotWrittenAfterUnmount ==
  [][\A c \in DOMAIN powerCalls :
       PowerCallEnds(c) /\ ViewOf(state.currentStep) # "IntermediateStepView"
         => ResultsUntouched]_vars

\* C16: re-running power estimation neither re-runs classification nor
\* changes the stored classification result: a step that sends a power
\* request or handles its answer sends no classify request and leaves
\* roomTypeData as it was.
C16_PowerRerunLeavesClassificationAlone ==
  [][powerCalls' # powerCalls
       => calls' = calls /\ state'.roomTypeData = state.roomTypeData]_vars

\* power estimation was run twice from one stored classification result
C16_Witness ==
  /\ Len(powerCalls) = 2
  /\ powerCalls[1].status = "resolved"
  /\ powerCalls[2].status = "resolved"
  /\ state.powerRequirementsData = powerCalls[2].response.body
  /\ Len(calls) = 1
  /\ state.roomTypeData = calls[1].response.body
  /\ state.roomTypeData # NoRoomTypeData

\* a request to POST /report/generate is sent in this step
ReportStarts == Len(reportCalls') > Len(reportCalls)

\* the files behind the results the run holds: the room book and the mapping
\* of the stored classification, the heating and ventilation files of the
\* stored power estimation
RunFiles ==
  UNION {{calls[c].file1, calls[c].file2} :
           c \in {k \in DOMAIN calls :
                    /\ calls[k].status = "resolved"
                    /\ calls[k].response.body = state.roomTypeData}}
  \cup
  UNION {{powerCalls[c].file1, powerCalls[c].file2} :
           c \in {k \in DOMAIN powerCalls :
                    /\ powerCalls[k].status = "resolved"
                    /\ powerCalls[k].response.body = state.powerRequirementsData}}

\* C17: report generation is invoked with every file uploaded in the run: the
\* room-book and mapping files of classification as well as the heating and
\* ventilation files of power estimation are in the generateReport request.
C17_ReportRequestHasAllUploads ==
  [][ReportStarts
       => LET request == reportCalls'[Len(reportCalls')]
          IN RunFiles \subseteq {request.files[i] : i \in DOMAIN request.files}]_vars

\* C18: completion flags follow the workflow order: whenever the step-2
\* processing view or the step-2 results are shown, step1Completed is true,
\* and whenever the report view is shown, step1Completed, step2Completed and
\* reportCompleted are all true.
C18_CompletionFlagsFollowOrder ==
  LET view == ViewOf(state.currentStep)
  IN /\ view \in {"Step2ProcessingView", "Step2View"} => state.step1Completed
     /\ view = "ReportView" =>
          /\ state.step1Completed
          /\ state.step2Completed
          /\ state.reportCompleted

\* C18 without step1Completed: the flags the step-2 views set themselves
C18_LaterFlagsFollowOrder ==
  ViewOf(state.currentStep) = "ReportView" =>
    state.step2Completed /\ state.reportCompleted

(***************************************************************************)
(* The claims about the upload area.                                       *)
(***************************************************************************)
\* the extension of a file name: the text after its last '.', if it has one
HasExtension(name) == \E i \in DOMAIN name : name[i] = "."

RECURSIVE AfterLastDot(_)
AfterLastDot(name) ==
  IF \A i \in DOMAIN name : name[i] # "." THEN name
  ELSE AfterLastDot(Tail(name))

Acceptable(file) ==
  /\ file.size <= maxSizeBytes
  /\ HasExtension(file.name)
  /\ <<".">> \o toLowerCase(AfterLastDot(file.name)) \in acceptedFormats

\* C19: a file is accepted into an upload slot if and only if its size is at
\* most maxSizeMB and its lower-cased extension is one of acceptedFormats; a
\* rejected file leaves the slot's selected file unchanged, sets the slot's
\* error message and does not trigger onFileSelect.
C19_AcceptedIffSizeAndExtension ==
  [][\A k \in Slots, file \in SampleFiles :
       handleFile(k, file) =>
         IF Acceptable(file)
         THEN selectedFile'[k] = file /\ error'[k] = NoErrorMessage
         ELSE /\ selectedFile'[k] = selectedFile[k]
              /\ error'[k] # NoErrorMessage
              /\ ~onFileSelect'.fired]_vars

\* C19 for the names that have a '.': the rule holds for them
C19_AcceptedIffSizeAndExtensionOfDottedNames ==
  [][\A k \in Slots, file \in {f \in SampleFiles : HasExtension(f.name)} :
       handleFile(k, file) =>
         IF Acceptable(file)
         THEN selectedFile'[k] = file /\ error'[k] = NoErrorMessage
         ELSE /\ selectedFile'[k] = selectedFile[k]
              /\ error'[k] # NoErrorMessage
              /\ ~onFileSelect'.fired]_vars

\* C20: the total annual savings the report computes from its monthly cost
\* data (sum of standard minus sum of optimized over the 12 months) equals
\* the 7,800 euro annual saving (30,300 minus 22,500 euro per year) shown in
\* the report's parameter table.
C20_TotalSavingsMatchTable ==
  ViewOf(state.currentStep) = "ReportView" =>
    /\ Len(costData) = 12
    /\ tableSavingPerYear = tableStandardPerYear - tableOptimizedPerYear
    /\ totalSavings = tableSavingPerYear

\* C20 read as an estimate: the computed savings are within 10 per cent of
\* the figure of the table
C20_TotalSavingsNearTable ==
  ViewOf(state.currentStep) = "ReportView" =>
    /\ 10 * (tableSavingPerYear - totalSavings) <= tableSavingPerYear
    /\ 10 * (totalSavings - tableSavingPerYear) <= tableSavingPerYear

(***************************************************************************)
(* The claims about the progress stepper and the processing views.         *)
(***************************************************************************)
StepIndexes == 0..2

\* what a click on step number index leaves behind in the current state
AfterStepClick(index) ==
  Render(state,
         handleStepClick(state, StepPath(ViewOf(state.currentStep), index, state)),
         pendingCalls, timer)

\* C21: while isProcessing is true, a click on any progress-stepper step
\* leaves currentStep and every other field of the analysis state unchanged.
C21_NoStepperNavigationWhileProcessing ==
  \A index \in StepIndexes :
    (state.isProcessing /\ ViewOf(state.currentStep) \in ViewsWithStepper)
      => /\ AfterStepClick(index).state = state
         /\ AfterStepClick(index).pendingCalls = pendingCalls
         /\ AfterStepClick(index).timer = timer

\* processing is going on in a view whose stepper has a step with a path
C21_Witness ==
  /\ state.isProcessing
  /\ ViewOf(state.currentStep) \in ViewsWithStepper
  /\ \E index \in StepIndexes :
       /\ StepPath(ViewOf(state.currentStep), index, state) # "undefined"
       /\ StepPath(ViewOf(state.currentStep), index, state) # state.currentStep

\* the completion flag that belongs to a step
CompletedFlag(s, step) ==
  CASE step = "step1" -> s.step1Completed
    [] step = "step2" -> s.step2Completed
    [] step = "report" -> s.reportCompleted
    [] OTHER -> FALSE

\* C22: stepper navigation only ever moves to a completed step: a stepper
\* click sets currentStep to 'step1', 'step2' or 'report' only if
\* step1Completed, step2Completed or reportCompleted respectively is true at
\* that moment, and a step without a path never changes currentStep.
C22_StepperMovesToCompletedStepsOnly ==
  \A index \in StepIndexes :
    ViewOf(state.currentStep) \in ViewsWithStepper =>
      LET path == StepPath(ViewOf(state.currentStep), index, state)
          after == AfterStepClick(index).state
      IN /\ after.currentStep # state.currentStep =>
              /\ after.currentStep = path
              /\ CompletedFlag(state, after.currentStep)
         /\ (path # "undefined" /\ ~state.isProcessing) =>
              /\ after.currentStep = path
              /\ CompletedFlag(state, path)
         /\ path = "undefined" => after.currentStep = state.currentStep

\* a click that navigates from step 1 to the report, and in the same state a
\* step that has no path
C22_Witness ==
  /\ ViewOf(state.currentStep) = "Step1View"
  /\ ~state.isProcessing
  /\ AfterStepClick(2).state.currentStep = "report"
  /\ StepPath("Step1View", 0, state) = "undefined"

\* the processing view that starts a call, and that call's results view
ViewOfCall(api) ==
  IF api = "fetchStep1Analysis" THEN "ProcessingView" ELSE "Step2ProcessingView"

\* the three changes of a completion handler have all happened / none has
Step1Applied ==
  /\ state'.step1Data = fetchStep1Analysis
  /\ state'.step1Completed
  /\ state'.currentStep = "step1"

Step2Applied ==
  /\ state'.step2Data = fetchStep2Analysis
  /\ state'.step2Completed
  /\ state'.currentStep = "step2"

Step1Untouched ==
  /\ state'.step1Data = state.step1Data
  /\ state'.step1Completed = state.step1Completed
  /\ state'.currentStep = state.currentStep

Step2Untouched ==
  /\ state'.step2Data = state.step2Data
  /\ state'.step2Completed = state.step2Completed
  /\ state'.currentStep = state.currentStep

\* C23: the completion handler of a processing view's call is all-or-nothing
\* with respect to mounting: if the view is still on screen when the
\* response arrives, the step data is stored, the step's completed flag
\* becomes true and currentStep becomes the step's results view; if the view
\* was unmounted first, none of the three changes.
C23_CompletionAllOrNothing ==
  [][\A i \in DOMAIN pendingCalls :
       LET mounted == ViewOf(state.currentStep) = ViewOfCall(pendingCalls[i].api)
                      /\ i = Len(pendingCalls)
       IN /\ pendingCalls[i].isMounted = mounted
          /\ Step1CallResolves(i) => IF mounted THEN Step1Applied ELSE Step1Untouched
          /\ Step2CallResolves(i) => IF mounted THEN Step2Applied
                                                ELSE Step2Untouched]_vars

\* the classification was answered first, the call of the processing view it
\* left behind has resolved since, and nothing of step 1 was written
C23_Witness ==
  /\ Len(calls) = 1
  /\ calls[1].status = "resolved"
  /\ pendingCalls = <<>>
  /\ state.step1Data = NoStep1Data
  /\ ~state.step1Completed
  /\ state.currentStep = "intermediate"

\* C24: UploadArea invokes onFileSelect only when every one of its slots
\* holds a file that passed validation, and the files it passes are exactly
\* the files currently selected in the slots; a file that was removed from a
\* slot is never passed.
C24_CallbackPassesTheSelectedFiles ==
  onFileSelect.fired =>
    /\ onFileSelect.files = selectedFile
    /\ \A k \in Slots :
         /\ selectedFile[k] # NoSelectedFile
         /\ validateFile(selectedFile[k]).ok

\* C24, the removal itself: it passes nothing and empties the slot
C24_NothingPassedOnRemove ==
  [][\A k \in Slots :
       handleRemove(k) => ~onFileSelect'.fired /\ selectedFile'[k] = NoSelectedFile]_vars

\* the callback fired while one slot shows the error of a file it rejected
\* and still holds the file selected before
C24_Witness ==
  /\ onFileSelect.fired
  /\ \E k \in Slots : error[k] # NoErrorMessage

\* the render of this step puts the view on screen
Mounts(view) ==
  ViewOf(state'.currentStep) = view /\ ViewOf(state.currentStep) # view

\* C25: the automatic advance of a results view is armed at most once per
\* analysis: the visit is recorded for good when the timer is set, and after
\* step 1 (step 2) has been visited once, showing that view again never sets
\* the timer, so currentStep does not change automatically.
C25_AutoAdvanceOnFirstVisitOnly ==
  [][/\ (state.step1Visited => state'.step1Visited)
     /\ (state.step2Visited => state'.step2Visited)
     /\ (timer' = "Step1View" /\ timer # "Step1View"
           => Mounts("Step1View") /\ ~state.step1Visited /\ state'.step1Visited)
     /\ (timer' = "Step2View" /\ timer # "Step2View"
           => Mounts("Step2View") /\ ~state.step2Visited /\ state'.step2Visited)
     /\ (Mounts("Step1View") /\ state.step1Visited => timer' = "none")
     /\ (Mounts("Step2View") /\ state.step2Visited => timer' = "none")
     /\ (Step1TimerFires => timer = "Step1View" /\ timer' # "Step1View")
     /\ (Step2TimerFires => timer = "Step2View" /\ timer' # "Step2View")]_vars

\* both advances have fired, the user has gone back to step 1 through the
\* stepper, and no timer is running
C25_Witness ==
  /\ state.currentStep = "step1"
  /\ state.step1Visited
  /\ state.step2Visited
  /\ state.reportCompleted
  /\ timer = "none"

\* C26: once a results view has been shown for the first time (its timer is
\* set), the flow eventually reaches the next stage: step-2 processing after
\* step 1, the report with reportCompleted true after step 2, whatever
\* stepper clicks or other step changes happen before the timer fires.
C26_FirstVisitLeadsToNextStage ==
  /\ (timer = "Step1View") ~> (state.currentStep = "step2-processing")
  /\ (timer = "Step2View")
       ~> (state.currentStep = "report" /\ state.reportCompleted)


\* a call of a processing view is in flight
CallInFlight == pendingCalls # <<>>

\* a call whose processing view went away before it resolved
OrphanedCall == \E i \in DOMAIN pendingCalls : ~pendingCalls[i].isMounted

\* C27: after every call started by a processing view, isProcessing
\* eventually returns to false, also when the view is unmounted before the
\* call resolves
C27_ProcessingEventuallyEnds == CallInFlight ~> ~state.isProcessing

\* a processing view went away before its call resolved, and isProcessing is
\* false although the call's own continuation will not reset it
C27_Witness == OrphanedCall /\ ~state.isProcessing

\* a classifyRoomTypes request has no answer yet
ClassificationInFlight == \E c \in DOMAIN calls : calls[c].status = "pending"

\* C28: from the upload that starts the classification until the
\* classifyRoomTypes answer arrives, currentStep stays 'processing' and
\* isProcessing stays true; the step-1 call of ProcessingView changes neither
C28_ProcessingUntilClassified ==
  ClassificationInFlight =>
    /\ state.currentStep = "processing"
    /\ state.isProcessing

\* C29: the automatic report generation terminates: the step in which a
\* generateReport attempt ends, by success or by error, starts no further
\* attempt
C29_NoRetryWithoutUser ==
  [][(\E c \in DOMAIN reportCalls :
        (reportCalls[c].status = "pending") /\ (reportCalls'[c].status # "pending"))
     => (Len(reportCalls') = Len(reportCalls))]_vars

\* C30: a failed request (non-OK HTTP status or network error) of
\* classifyRoomTypes or generatePowerRequirements leaves every stored result
\* and every completion flag as it is, sets isProcessing to false and sets
\* currentStep to the step the request was started from
C30_FailedRequestChangesNothingElse ==
  [][(\A c \in DOMAIN calls :
        ((calls[c].status = "pending") /\ (calls'[c].status # "pending")
           /\ ~calls'[c].response.ok)
        => ((state' = [state EXCEPT !.isProcessing = FALSE, !.currentStep = "home"])
              /\ (reportGenerateData' = reportGenerateData)))
     /\ (\A p \in DOMAIN powerCalls :
           ((powerCalls[p].status = "pending") /\ (powerCalls'[p].status # "pending")
              /\ ~powerCalls'[p].response.ok)
           => ((state' = [state EXCEPT !.isProcessing = FALSE,
                                       !.currentStep = "intermediate"])
                 /\ (reportGenerateData' = reportGenerateData)))]_vars

\* a classification request and a power request have failed, and the results
\* stored before are still there
C30_Witness ==
  /\ \E c \in DOMAIN calls : calls[c].status = "rejected"
  /\ \E c \in DOMAIN powerCalls : powerCalls[c].status = "rejected"
  /\ state.currentStep = "intermediate"
  /\ ~state.isProcessing
  /\ state.roomTypeData # NoRoomTypeData
  /\ state.step1Completed

=============================================================================
